---- MODULE Spec2Model ----
\* AutomaPrint: the HTTP front door (server.py), the print dispatcher
\* (printer.py) and the tunnel supervisor (tunnel.py) as state machines.
EXTENDS Integers, Sequences, FiniteSets, TLC

\* ------------------------------------------------------------------ bounds
\* requests accepted in one run of the front door
MaxRequests == 2
\* tunnel subprocesses launched in one run
MaxLaunches == 2
\* tunnel subprocesses launched in one run checked for progress
MaxLiveLaunches == 1
\* processes of other programs found listening on the port
MaxListeners == 2

\* --------------------------------------------------------------- constants
DefaultPort == 8080

\* ------------------------------------------------------------------ inputs
Absent == "<absent>"
Keys == {"k1", "k2"}
PrinterNames == {"", "HP"}
PrinterArgs == {Absent, "", "Zebra"}
HeaderKeys == {Absent} \cup Keys
Ports == {DefaultPort}
Payloads ==
    { <<>>,
      <<"x">>,
      <<"%", "P", "D">>,
      <<"%", "P", "D", "F">>,
      <<"%", "P", "D", "F", "-", "1">>,
      <<"x", "%", "P", "D", "F">> }
\* request.files: no 'file' field, or one with some content
FileFields == {{}} \cup {{d} : d \in Payloads}
\* names tempfile can hand out in the temp directory
Names == {"tmp1.pdf", "tmp2.pdf"}
\* request-handling threads of the threaded WSGI server
Workers == {"w1", "w2"}

VARIABLES
    config,      \* PrintServer.config: use_tunnel, api_key, printer_name, port
    req,         \* worker -> the request it is handling
    served,      \* number of requests accepted so far
    fs,          \* temp directory: name -> "absent" | "partial" | "full"
    cleanups,    \* delayed-deletion threads still sleeping: set of [name, job]
    had_failure, \* some earlier request was answered "Print job failed"
    process,     \* TunnelManager.process: 0 for None, else the subprocess held
    tunnel_url,  \* TunnelManager.tunnel_url: <<>> for None, else the URL
    running,     \* TunnelManager.running
    procs,       \* every tunnel subprocess ever launched: pid -> its state
    readers,     \* the _capture_output thread started for each launch
    ctl,         \* the threads that call TunnelManager.start() and stop()
    server,      \* PrintServer: http_server, running, and the listener's flags
    sth,         \* the threads inside PrintServer.start() and stop()
    render       \* one call of print_pdf: its settings, token and command

httpVars == <<config, req, served, fs, cleanups, had_failure, render>>
tunnelVars == <<process, tunnel_url, running, procs, readers, ctl>>
orchVars == <<server, sth>>
vars == <<config, req, served, fs, cleanups, had_failure,
          process, tunnel_url, running, procs, readers, ctl, server, sth,
          render>>

\* ---------------------------------------------------------------- printer.py
PDF_SIGNATURE == <<"%", "P", "D", "F">>

\* data[:4]: the first four bytes, or all of them when there are fewer
Prefix4(data) == SubSeq(data, 1, IF Len(data) < 4 THEN Len(data) ELSE 4)

\* mutant: compares three bytes of the signature instead of four
is_pdf_three_bytes(data) ==
    Len(data) >= 3 /\ SubSeq(data, 1, 3) = SubSeq(PDF_SIGNATURE, 1, 3)

is_pdf(data) == Len(data) >= 4 /\ Prefix4(data) = PDF_SIGNATURE

\* ----------------------------------------------------------------- server.py
\* request.headers.get('X-API-Key', '')
HeaderOrEmpty(k) == IF k = Absent THEN "" ELSE k

\* mutant: a request without the header is let through
check_api_key_absent_ok(cfg, key) ==
    IF ~cfg.use_tunnel THEN TRUE
    ELSE IF cfg.api_key = "" THEN TRUE
    ELSE key = Absent \/ HeaderOrEmpty(key) = cfg.api_key

\* mutant: the key is checked whether or not the tunnel is enabled
check_api_key_always(cfg, key) ==
    IF cfg.api_key = "" THEN TRUE
    ELSE HeaderOrEmpty(key) = cfg.api_key

check_api_key(cfg, key) ==
    IF ~cfg.use_tunnel THEN TRUE
    ELSE IF cfg.api_key = "" THEN TRUE
    ELSE HeaderOrEmpty(key) = cfg.api_key

\* request.args.get('printer', self.config.get('printer_name', ''))
EffectivePrinter(cfg, arg) == IF arg = Absent THEN cfg.printer_name ELSE arg

\* pdf_data: the 'file' field's content when the request has one, else the body
PdfData(file, body) == IF file # {} THEN CHOOSE d \in file : TRUE ELSE body

\* mutant: counts the bytes that follow the signature
ResponseBytes_after_signature(data) == Len(data) - 4

\* 'bytes': len(pdf_data)
ResponseBytes(data) == Len(data)

NoResp == [status |-> 0, error |-> "", ok |-> "", printer |-> "", port |-> 0,
           bytes |-> -1, success |-> FALSE]

IdleReq == [pc |-> "idle", route |-> "", method |-> "", key |-> Absent,
            printer |-> Absent, data |-> <<>>, job |-> 0,
            validated |-> FALSE, temp_pdf_path |-> Absent, outcome |-> "none",
            renders |-> 0, scheduled |-> 0, resp |-> NoResp]

ErrorResp(code, msg) == [NoResp EXCEPT !.status = code, !.error = msg]

HealthResp(cfg) ==
    [NoResp EXCEPT !.status = 200, !.ok = "ok",
                   !.printer = cfg.printer_name, !.port = cfg.port]

PrintOkResp(name, data) ==
    [NoResp EXCEPT !.status = 200, !.success = TRUE, !.printer = name,
                   !.bytes = ResponseBytes(data)]

JobFailedResp == ErrorResp(500, "Print job failed")

UnauthorizedResp == ErrorResp(401, "Unauthorized: Invalid API key")

\* mutant: the handlers have no preflight branch
IsPreflight_never(method) == FALSE

\* `if request.method == 'OPTIONS':`
IsPreflight(method) == method = "OPTIONS"

\* return '', 204
PreflightResp == [NoResp EXCEPT !.status = 204]

\* PrintServer.__init__: a key is generated when the loaded configuration
\* enables the tunnel without one
Construct(loaded) ==
    IF loaded.use_tunnel /\ loaded.api_key = ""
    THEN [loaded EXCEPT !.api_key = "k1"]
    ELSE loaded

LoadedConfigs ==
    [use_tunnel : BOOLEAN, api_key : {"", "k1"}, printer_name : PrinterNames,
     port : Ports]

\* mutant: the payload is checked before the device name
Validation_payload_first(printer_name, data) ==
    IF data = <<>> THEN "No PDF data received"
    ELSE IF ~is_pdf(data) THEN "Data is not a valid PDF file"
    ELSE IF printer_name = "" THEN "No printer specified"
    ELSE ""

\* the three checks of print_pdf_endpoint before dispatch: the error message
\* of the first that fails, "" when all pass
Validation(printer_name, data) ==
    IF printer_name = "" THEN "No printer specified"
    ELSE IF data = <<>> THEN "No PDF data received"
    ELSE IF ~is_pdf(data) THEN "Data is not a valid PDF file"
    ELSE ""

Respond(r, resp) == [r EXCEPT !.pc = "done", !.resp = resp]

Busy == {w \in Workers : req[w].pc # "idle"}

\* PrintServer.save_config(**kwargs): a value of None leaves the key alone.
\* A keyword argument is the set of its values: {} for None, {v} for v.
Merge(old, new) == IF new = {} THEN old ELSE CHOOSE x \in new : TRUE

save_config(use_tunnel, api_key, printer_name) ==
    /\ Busy = {}
    /\ config' = [config EXCEPT !.use_tunnel = Merge(@, use_tunnel),
                                !.api_key = Merge(@, api_key),
                                !.printer_name = Merge(@, printer_name)]
    /\ config' # config
    /\ UNCHANGED <<req, served, fs, cleanups, had_failure>>
    /\ UNCHANGED tunnelVars
    /\ UNCHANGED orchVars
    /\ UNCHANGED render

\* mutant: enabling the tunnel never generates a key
NeedsNewKey_never(use_tunnel, api_key) == FALSE

\* gui.py: `if use_tunnel and not self.server.config.get('api_key'):`
NeedsNewKey(use_tunnel, api_key) == use_tunnel /\ api_key = ""

\* gui.py on_tunnel_setting_changed: the tunnel checkbox is toggled; new_key
\* is what generate_api_key() returns
on_tunnel_setting_changed(use_tunnel, new_key) ==
    IF NeedsNewKey(use_tunnel, config.api_key)
    THEN save_config({use_tunnel}, {new_key}, {})
    ELSE save_config({use_tunnel}, {}, {})

\* gui.py regenerate_api_key
regenerate_api_key(new_key) == save_config({}, {new_key}, {})

\* gui.py save_configuration: the printer is chosen (the port is fixed here)
save_configuration(printer_name) == save_config({}, {}, {printer_name})

\* GET/OPTIONS /health
health(w, method, key) ==
    /\ req[w].pc = "idle"
    /\ served < MaxRequests
    /\ served' = served + 1
    /\ LET r == [IdleReq EXCEPT !.route = "/health", !.method = method,
                                !.key = key, !.job = served + 1]
       IN  req' = [req EXCEPT ![w] =
                     IF IsPreflight(method) THEN Respond(r, PreflightResp)
                     ELSE IF ~check_api_key(config, key)
                     THEN Respond(r, UnauthorizedResp)
                     ELSE Respond(r, HealthResp(config))]
    /\ UNCHANGED <<config, fs, cleanups, had_failure>>
    /\ UNCHANGED tunnelVars
    /\ UNCHANGED orchVars
    /\ UNCHANGED render

\* POST/OPTIONS /print, up to the call of printer.print_pdf
print_pdf_endpoint(w, method, key, printer, file, body) ==
    /\ req[w].pc = "idle"
    /\ served < MaxRequests
    /\ served' = served + 1
    /\ LET pdf_data == PdfData(file, body)
           r == [IdleReq EXCEPT !.route = "/print", !.method = method,
                                !.key = key, !.printer = printer,
                                !.data = pdf_data, !.job = served + 1]
           v == [r EXCEPT !.validated = TRUE]
           printer_name == EffectivePrinter(config, printer)
       IN  req' = [req EXCEPT ![w] =
                     IF IsPreflight(method) THEN Respond(r, PreflightResp)
                     ELSE IF ~check_api_key(config, key)
                     THEN Respond(r, UnauthorizedResp)
                     ELSE IF Validation(printer_name, pdf_data) # ""
                     THEN Respond(v, ErrorResp(400, Validation(printer_name, pdf_data)))
                     ELSE [v EXCEPT !.pc = "print_pdf"]]
    /\ UNCHANGED <<config, fs, cleanups, had_failure>>
    /\ UNCHANGED tunnelVars
    /\ UNCHANGED orchVars
    /\ UNCHANGED render

\* ------------------------------------------------- printer.print_pdf, by step
\* get_sumatra_path(): the renderer is found, not found, or the lookup raises
\* (it runs outside print_pdf's try block)
ResolveOutcomes == {"found", "not_found", "raise"}

resolve_renderer(w, outcome) ==
    /\ req[w].pc = "print_pdf"
    /\ req' = [req EXCEPT ![w] =
                 IF outcome = "found" THEN [@ EXCEPT !.pc = "write"]
                 ELSE IF outcome = "not_found"
                 THEN Respond([@ EXCEPT !.outcome = "unresolved"], JobFailedResp)
                 ELSE Respond([@ EXCEPT !.outcome = "resolve_raise"],
                              ErrorResp(500, "<exception text>"))]
    /\ had_failure' = (had_failure \/ outcome = "not_found")
    /\ UNCHANGED <<config, served, fs, cleanups>>
    /\ UNCHANGED tunnelVars
    /\ UNCHANGED orchVars
    /\ UNCHANGED render

\* mutant: the name is not checked against the files that exist
FreeNames_any == Names

\* the names NamedTemporaryFile can create: it opens with O_EXCL, so never a
\* name that exists
FreeNames == {n \in Names : fs[n] = "absent"}

\* mutant: the file is handed to the renderer before it is closed
Written_unclosed == "partial"

\* temp_pdf.write(pdf_data); temp_pdf.close()
Written == "full"

\* tempfile.NamedTemporaryFile(delete=False) raises: temp_pdf_path stays None
write_create_raises(w) ==
    /\ req[w].pc = "write"
    /\ req' = [req EXCEPT ![w].pc = "finally", ![w].outcome = "create_raise"]
    /\ UNCHANGED <<config, served, fs, cleanups, had_failure>>
    /\ UNCHANGED tunnelVars
    /\ UNCHANGED orchVars
    /\ UNCHANGED render

\* the file is created under a name not in use, then write() or close() raises
write_raises(w, name) ==
    /\ req[w].pc = "write"
    /\ name \in FreeNames
    /\ fs' = [fs EXCEPT ![name] = "partial"]
    /\ req' = [req EXCEPT ![w].pc = "finally", ![w].outcome = "write_raise",
                          ![w].temp_pdf_path = name]
    /\ UNCHANGED <<config, served, cleanups, had_failure>>
    /\ UNCHANGED tunnelVars
    /\ UNCHANGED orchVars
    /\ UNCHANGED render

write_scratch(w, name) ==
    /\ req[w].pc = "write"
    /\ name \in FreeNames
    /\ fs' = [fs EXCEPT ![name] = Written]
    /\ req' = [req EXCEPT ![w].pc = "launch", ![w].temp_pdf_path = name]
    /\ UNCHANGED <<config, served, cleanups, had_failure>>
    /\ UNCHANGED tunnelVars
    /\ UNCHANGED orchVars
    /\ UNCHANGED render

\* subprocess.run(cmd, timeout=60): the launch raises, or the renderer starts
launch_raises(w) ==
    /\ req[w].pc = "launch"
    /\ req' = [req EXCEPT ![w].pc = "finally", ![w].outcome = "launch_raise"]
    /\ UNCHANGED <<config, served, fs, cleanups, had_failure>>
    /\ UNCHANGED tunnelVars
    /\ UNCHANGED orchVars
    /\ UNCHANGED render

launch_renderer(w) ==
    /\ req[w].pc = "launch"
    /\ req' = [req EXCEPT ![w].pc = "running", ![w].renders = @ + 1]
    /\ UNCHANGED <<config, served, fs, cleanups, had_failure>>
    /\ UNCHANGED tunnelVars
    /\ UNCHANGED orchVars
    /\ UNCHANGED render

\* the renderer exits with code 0, exits with another code, or is still
\* running when the 60 s timeout expires
RunOutcomes == {"exit0", "exit1", "timeout"}

renderer_returns(w, outcome) ==
    /\ req[w].pc = "running"
    /\ req' = [req EXCEPT ![w].pc = "finally", ![w].outcome = outcome]
    /\ UNCHANGED <<config, served, fs, cleanups, had_failure>>
    /\ UNCHANGED tunnelVars
    /\ UNCHANGED orchVars
    /\ UNCHANGED render

\* mutant: the renderer's exit code is ignored
print_pdf_result_ignores_code(outcome) == outcome \in {"exit0", "exit1", "timeout"}

\* mutant: a timeout is reported as a failure
print_pdf_result_timeout_fails(outcome) == outcome = "exit0"

\* the value print_pdf returns for each way its try block ends
print_pdf_result(outcome) ==
    IF outcome = "exit0" THEN TRUE
    ELSE IF outcome = "exit1" THEN FALSE
    ELSE IF outcome = "timeout" THEN TRUE
    ELSE FALSE

\* mutant: the deletion is scheduled only when the try block ended normally
\* or by the timeout
CleanupNeeded_unless_raised(path, outcome) ==
    path # Absent /\ outcome \in {"exit0", "exit1", "timeout"}

\* `if temp_pdf_path:` in the finally block
CleanupNeeded(path, outcome) == path # Absent

\* the finally block of print_pdf, then the response of print_pdf_endpoint
finally_and_respond(w) ==
    /\ req[w].pc = "finally"
    /\ LET r == req[w]
           path == r.temp_pdf_path
           s == IF CleanupNeeded(path, r.outcome)
                THEN [r EXCEPT !.scheduled = @ + 1] ELSE r
           success == print_pdf_result(r.outcome)
       IN  /\ cleanups' = IF CleanupNeeded(path, r.outcome)
                          THEN cleanups \cup {[name |-> path, job |-> r.job]}
                          ELSE cleanups
           /\ req' = [req EXCEPT ![w] =
                        IF success
                        THEN Respond(s, PrintOkResp(EffectivePrinter(config, r.printer),
                                                    r.data))
                        ELSE Respond(s, JobFailedResp)]
           /\ had_failure' = (had_failure \/ ~success)
    /\ UNCHANGED <<config, served, fs>>
    /\ UNCHANGED tunnelVars
    /\ UNCHANGED orchVars
    /\ UNCHANGED render

\* the daemon thread started by the finally block: sleep, then os.unlink,
\* whose failure is swallowed
cleanup(task, unlinked) ==
    /\ task \in cleanups
    /\ cleanups' = cleanups \ {task}
    /\ fs' = IF unlinked THEN [fs EXCEPT ![task.name] = "absent"] ELSE fs
    /\ UNCHANGED <<config, req, served, had_failure>>
    /\ UNCHANGED tunnelVars
    /\ UNCHANGED orchVars
    /\ UNCHANGED render

\* the response has been sent; the worker takes the next request
finish(w) ==
    /\ req[w].pc = "done"
    /\ req' = [req EXCEPT ![w] = IdleReq]
    /\ UNCHANGED <<config, served, fs, cleanups, had_failure>>
    /\ UNCHANGED tunnelVars
    /\ UNCHANGED orchVars
    /\ UNCHANGED render

\* ------------------------------------------------------------------ tunnel.py
Pids == 1..MaxLaunches
\* threads that call start() and stop(): the GUI thread and the server thread
Callers == {"gui", "srv"}

None == <<>>

\* an output line of the tunnel subprocess, after strip(): the text before a
\* URL-shaped part, that part as scheme, label and host, and the text after it
LabelChars == {"a", "b", "1", "2", "-"}
UrlHost == ".trycloudflare.com"
Lines ==
    { [pre |-> "", scheme |-> "", label |-> <<>>, host |-> "", post |-> ""],
      [pre |-> "INF ", scheme |-> "https://", label |-> <<"a", "1">>,
       host |-> UrlHost, post |-> ""],
      [pre |-> "INF ", scheme |-> "https://", label |-> <<"b", "-", "2">>,
       host |-> UrlHost, post |-> " failed"],
      [pre |-> "", scheme |-> "http://", label |-> <<"a", "1">>,
       host |-> UrlHost, post |-> ""],
      [pre |-> "", scheme |-> "https://", label |-> <<"a", "B">>,
       host |-> UrlHost, post |-> ""],
      [pre |-> "", scheme |-> "https://", label |-> <<>>,
       host |-> UrlHost, post |-> ""],
      [pre |-> "", scheme |-> "https://", label |-> <<"a", "1">>,
       host |-> ".example.com", post |-> ""],
      [pre |-> "ERR error", scheme |-> "", label |-> <<>>, host |-> "",
       post |-> ""] }

\* `if line:` after strip()
IsBlank(line) ==
    line.pre = "" /\ line.scheme = "" /\ line.label = <<>> /\ line.host = ""
        /\ line.post = ""

\* url_pattern.search(line): https://[a-z0-9-]+\.trycloudflare\.com
UrlMatch(line) ==
    /\ line.scheme = "https://"
    /\ Len(line.label) >= 1
    /\ \A i \in 1..Len(line.label) : line.label[i] \in LabelChars
    /\ line.host = UrlHost

\* match.group(0)
MatchGroup0(line) == <<line.scheme>> \o line.label \o <<line.host>>

\* mutant: start() does not look at the flag
AlreadyRunning_never(flag) == FALSE

\* `if self.running:` at the head of start()
AlreadyRunning(flag) == flag

\* mutant: stop() runs its body without a handle
StopHasWork_always(handle) == TRUE

\* `if self.process:` at the head of stop()
StopHasWork(handle) == handle # 0

\* recorded: the thread has assigned a URL to tunnel_url
NoReader == [pc |-> "unborn", stdout |-> 0, pending |-> None,
             recorded |-> FALSE]


\* how: the way a stop() call went: "noop" (no handle), "graceful"
\* (terminated within the wait) or "killed"
IdleCaller == [op |-> "none", pc |-> "idle", result |-> FALSE, pid |-> 0,
               found |-> "none", how |-> "none"]

CanCall(t) == ctl[t].pc \in {"idle", "returned"}

\* the session as a call finds it: "running" (the flag is set), "stopped"
\* (flag clear, no URL, no tunnel subprocess alive) or "other"
SessionState ==
    IF running THEN "running"
    ELSE IF tunnel_url = None /\ \A i \in Pids : procs[i] # "alive"
    THEN "stopped"
    ELSE "other"

\* a call begins; found remembers the session as the call found it
Enter(t, op) == [IdleCaller EXCEPT !.op = op, !.found = SessionState]

Return(c, result) == [c EXCEPT !.pc = "returned", !.result = result, !.pid = 0]

\* start(): the running check and the lookup (or download) of cloudflared
StartEntry(t, found) ==
    /\ CanCall(t)
    /\ ctl' = [ctl EXCEPT ![t] =
                 IF AlreadyRunning(running) THEN Return(Enter(t, "start"), FALSE)
                 ELSE IF ~found THEN Return(Enter(t, "start"), FALSE)
                 ELSE [Enter(t, "start") EXCEPT !.pc = "popen"]]
    /\ UNCHANGED <<process, tunnel_url, running, procs, readers>>
    /\ UNCHANGED httpVars

\* start() called on the manager directly
start_enter(t, found) == StartEntry(t, found) /\ UNCHANGED orchVars

\* subprocess.Popen raises: start() logs and returns False
start_popen_raises(t) ==
    /\ ctl[t].op = "start" /\ ctl[t].pc = "popen"
    /\ ctl' = [ctl EXCEPT ![t] = Return(@, FALSE)]
    /\ UNCHANGED <<process, tunnel_url, running, procs, readers>>
    /\ UNCHANGED httpVars
    /\ UNCHANGED orchVars

\* self.process = subprocess.Popen(...)
start_popen(t, pid) ==
    /\ ctl[t].op = "start" /\ ctl[t].pc = "popen"
    /\ procs[pid] = "unborn"
    /\ \A q \in Pids : q < pid => procs[q] # "unborn"
    /\ procs' = [procs EXCEPT ![pid] = "alive"]
    /\ process' = pid
    /\ ctl' = [ctl EXCEPT ![t].pc = "set_running", ![t].pid = pid]
    /\ UNCHANGED <<tunnel_url, running, readers>>
    /\ UNCHANGED httpVars
    /\ UNCHANGED orchVars

\* self.running = True
start_set_running(t) ==
    /\ ctl[t].op = "start" /\ ctl[t].pc = "set_running"
    /\ running' = TRUE
    /\ ctl' = [ctl EXCEPT ![t].pc = "thread"]
    /\ UNCHANGED <<process, tunnel_url, procs, readers>>
    /\ UNCHANGED httpVars
    /\ UNCHANGED orchVars

\* self._output_thread = Thread(target=self._capture_output); start(); return True
start_thread(t) ==
    /\ ctl[t].op = "start" /\ ctl[t].pc = "thread"
    /\ readers' = [readers EXCEPT ![ctl[t].pid] = [NoReader EXCEPT !.pc = "start"]]
    /\ ctl' = [ctl EXCEPT ![t] = Return(@, TRUE)]
    /\ UNCHANGED <<process, tunnel_url, running, procs>>
    /\ UNCHANGED httpVars
    /\ UNCHANGED orchVars

\* _capture_output: `for line in self.process.stdout` reads self.process once;
\* with the handle already cleared the AttributeError is swallowed
reader_begin(i) ==
    /\ readers[i].pc = "start"
    /\ readers' = [readers EXCEPT ![i] =
                     IF process = 0 THEN [@ EXCEPT !.pc = "tail_running"]
                     ELSE [@ EXCEPT !.pc = "loop", !.stdout = process]]
    /\ UNCHANGED <<process, tunnel_url, running, procs, ctl>>
    /\ UNCHANGED httpVars
    /\ UNCHANGED orchVars

\* 'error' in line.lower() or 'failed' in line.lower()
Keyworded == {"ERR error", " failed"}
HasKeyword(line) == line.pre \in Keyworded \/ line.post \in Keyworded

\* mutant: a line with a failure keyword ends the reader's loop
AfterLine_keyword_stops(r, line, url) ==
    IF ~IsBlank(line) /\ HasKeyword(line)
    THEN [r EXCEPT !.pc = "tail_running"]
    ELSE IF ~IsBlank(line) /\ UrlMatch(line) /\ url = None
    THEN [r EXCEPT !.pc = "set_url", !.pending = MatchGroup0(line)]
    ELSE r

\* the reader after one line: a match while no URL is held leads to the
\* assignment; a line with a failure keyword is only forwarded to the log
AfterLine(r, line, url) ==
    IF ~IsBlank(line) /\ UrlMatch(line) /\ url = None
    THEN [r EXCEPT !.pc = "set_url", !.pending = MatchGroup0(line)]
    ELSE r

\* one iteration of the loop up to the test `match and not self.tunnel_url`
reader_line(i, line) ==
    /\ readers[i].pc = "loop"
    /\ readers' = [readers EXCEPT ![i] = AfterLine(@, line, tunnel_url)]
    /\ UNCHANGED <<process, tunnel_url, running, procs, ctl>>
    /\ UNCHANGED httpVars
    /\ UNCHANGED orchVars

\* self.tunnel_url = match.group(0)
reader_set_url(i) ==
    /\ readers[i].pc = "set_url"
    /\ tunnel_url' = readers[i].pending
    /\ readers' = [readers EXCEPT ![i].pc = "loop", ![i].pending = None,
                                  ![i].recorded = TRUE]
    /\ UNCHANGED <<process, running, procs, ctl>>
    /\ UNCHANGED httpVars
    /\ UNCHANGED orchVars

\* the stream ends once the subprocess it belongs to has exited
reader_eof(i) ==
    /\ readers[i].pc = "loop"
    /\ procs[readers[i].stdout] = "dead"
    /\ readers' = [readers EXCEPT ![i].pc = "tail_running"]
    /\ UNCHANGED <<process, tunnel_url, running, procs, ctl>>
    /\ UNCHANGED httpVars
    /\ UNCHANGED orchVars

\* reading raises (a line that does not decode): the bare except swallows it
reader_raises(i) ==
    /\ readers[i].pc = "loop"
    /\ readers' = [readers EXCEPT ![i].pc = "tail_running"]
    /\ UNCHANGED <<process, tunnel_url, running, procs, ctl>>
    /\ UNCHANGED httpVars
    /\ UNCHANGED orchVars

\* self.running = False
reader_tail_running(i) ==
    /\ readers[i].pc = "tail_running"
    /\ running' = FALSE
    /\ readers' = [readers EXCEPT ![i].pc = "tail_url"]
    /\ UNCHANGED <<process, tunnel_url, procs, ctl>>
    /\ UNCHANGED httpVars
    /\ UNCHANGED orchVars

\* mutant: the reader leaves the URL in place when the stream ends
UrlAtStreamEnd_kept(url) == url

\* the value of the reader's last statement
UrlAtStreamEnd(url) == None

\* self.tunnel_url = None
reader_tail_url(i) ==
    /\ readers[i].pc = "tail_url"
    /\ tunnel_url' = UrlAtStreamEnd(tunnel_url)
    /\ readers' = [readers EXCEPT ![i] = [NoReader EXCEPT !.pc = "done"]]
    /\ UNCHANGED <<process, running, procs, ctl>>
    /\ UNCHANGED httpVars
    /\ UNCHANGED orchVars

\* stop(): `if self.process:`
StopEntry(t) ==
    /\ CanCall(t)
    /\ ctl' = [ctl EXCEPT ![t] =
                 IF StopHasWork(process)
                 THEN [Enter(t, "stop") EXCEPT !.pc = "terminate"]
                 ELSE Return([Enter(t, "stop") EXCEPT !.how = "noop"], TRUE)]
    /\ UNCHANGED <<process, tunnel_url, running, procs, readers>>
    /\ UNCHANGED httpVars

\* stop() called on the manager directly
stop_enter(t) == StopEntry(t) /\ UNCHANGED orchVars

\* self.process.terminate(); self.process.wait(timeout=5); on a timeout or
\* any other exception self.process.kill(), whose own exception is swallowed
stop_terminate(t, graceful) ==
    /\ ctl[t].op = "stop" /\ ctl[t].pc = "terminate"
    /\ procs' = IF process # 0 THEN [procs EXCEPT ![process] = "dead"] ELSE procs
    /\ ctl' = [ctl EXCEPT ![t].pc = "clear_process",
                          ![t].how = IF process # 0 /\ graceful
                                     THEN "graceful" ELSE "killed"]
    /\ UNCHANGED <<process, tunnel_url, running, readers>>
    /\ UNCHANGED httpVars
    /\ UNCHANGED orchVars

\* self.process = None
stop_clear_process(t) ==
    /\ ctl[t].op = "stop" /\ ctl[t].pc = "clear_process"
    /\ process' = 0
    /\ ctl' = [ctl EXCEPT ![t].pc = "clear_url"]
    /\ UNCHANGED <<tunnel_url, running, procs, readers>>
    /\ UNCHANGED httpVars
    /\ UNCHANGED orchVars

\* self.tunnel_url = None
stop_clear_url(t) ==
    /\ ctl[t].op = "stop" /\ ctl[t].pc = "clear_url"
    /\ tunnel_url' = None
    /\ ctl' = [ctl EXCEPT ![t].pc = "clear_running"]
    /\ UNCHANGED <<process, running, procs, readers>>
    /\ UNCHANGED httpVars
    /\ UNCHANGED orchVars

\* self.running = False, and stop() returns
stop_clear_running(t) ==
    /\ ctl[t].op = "stop" /\ ctl[t].pc = "clear_running"
    /\ running' = FALSE
    /\ ctl' = [ctl EXCEPT ![t] = Return(@, TRUE)]
    /\ UNCHANGED <<process, tunnel_url, procs, readers>>
    /\ UNCHANGED httpVars
    /\ UNCHANGED orchVars

\* the tunnel subprocess exits by itself
proc_exits(pid) ==
    /\ procs[pid] = "alive"
    /\ procs' = [procs EXCEPT ![pid] = "dead"]
    /\ UNCHANGED <<process, tunnel_url, running, readers, ctl>>
    /\ UNCHANGED httpVars
    /\ UNCHANGED orchVars

\* get_url()
get_url == tunnel_url

\* TunnelManager.__init__
TunnelInit ==
    /\ process = 0
    /\ tunnel_url = None
    /\ running = FALSE
    /\ procs = [i \in Pids |-> "unborn"]
    /\ readers = [i \in Pids |-> NoReader]
    /\ ctl = [t \in Callers |-> IdleCaller]

\* ------------------------------------- printer.py: the renderer's command line
\* values of print_scaling, print_color and print_duplex in the settings
\* dict; Absent when the key is missing
Scalings == {Absent, "fit", "shrink", "noscale"}
Colors == {Absent, "color", "monochrome"}
Duplexes == {Absent, "simplex", "duplexlong", "duplexshort"}

\* print_settings.get(key, default)
GetOr(value, default) == IF value = Absent THEN default ELSE value

\* ",".join(settings)
RECURSIVE Join(_)
Join(settings) ==
    IF Len(settings) = 0 THEN ""
    ELSE IF Len(settings) = 1 THEN settings[1]
    ELSE settings[1] \o "," \o Join(Tail(settings))

\* mutant: the duplex token is put before the colour token
SettingsList_duplex_first(scaling, color, duplex) ==
    (IF scaling = "noscale" THEN <<"noscale">>
     ELSE IF scaling = "shrink" THEN <<"shrink">> ELSE <<>>)
    \o (IF duplex = "duplexlong" THEN <<"duplex">>
        ELSE IF duplex = "duplexshort" THEN <<"duplexshort">> ELSE <<>>)
    \o (IF color = "monochrome" THEN <<"monochrome">> ELSE <<>>)

\* the list `settings` after the three blocks of build_print_settings
SettingsList(scaling, color, duplex) ==
    (IF scaling = "noscale" THEN <<"noscale">>
     ELSE IF scaling = "shrink" THEN <<"shrink">> ELSE <<>>)
    \o (IF color = "monochrome" THEN <<"monochrome">> ELSE <<>>)
    \o (IF duplex = "duplexlong" THEN <<"duplex">>
        ELSE IF duplex = "duplexshort" THEN <<"duplexshort">> ELSE <<>>)

\* build_print_settings: the joined list, None (Absent) when it is empty
build_print_settings(scaling, color, duplex) ==
    IF SettingsList(scaling, color, duplex) # <<>>
    THEN Join(SettingsList(scaling, color, duplex))
    ELSE Absent

\* `if settings_str:`
Truthy(str) == str # Absent /\ str # ""

\* cmd as print_pdf builds it
RenderCmd(sumatra, printer_name, settings_str, temp_pdf_path) ==
    <<sumatra, "-print-to", printer_name>>
    \o (IF Truthy(settings_str) THEN <<"-print-settings", settings_str>>
        ELSE <<>>)
    \o <<"-silent", temp_pdf_path>>

IdleRender == [pc |-> "settings", has_settings |-> TRUE, scaling |-> Absent,
               color |-> Absent, duplex |-> Absent, settings_str |-> Absent,
               cmd |-> <<>>]

\* print_pdf: `if print_settings:` and the call of build_print_settings
print_pdf_settings ==
    /\ render.pc = "settings"
    /\ render' = [render EXCEPT
                    !.pc = "cmd",
                    !.settings_str =
                        IF render.has_settings
                        THEN build_print_settings(
                                 GetOr(render.scaling, "shrink"),
                                 GetOr(render.color, "color"),
                                 GetOr(render.duplex, "simplex"))
                        ELSE Absent]
    /\ UNCHANGED <<config, req, served, fs, cleanups, had_failure>>
    /\ UNCHANGED tunnelVars
    /\ UNCHANGED orchVars

\* print_pdf: the command handed to subprocess.run
print_pdf_cmd(name) ==
    /\ render.pc = "cmd"
    /\ render' = [render EXCEPT
                    !.pc = "run",
                    !.cmd = RenderCmd("SumatraPDF.exe", "HP",
                                      render.settings_str, name)]
    /\ UNCHANGED <<config, req, served, fs, cleanups, had_failure>>
    /\ UNCHANGED tunnelVars
    /\ UNCHANGED orchVars

\* ---------------------------------------- server.py: PrintServer.start / stop
\* the listening port as the Port Guard and make_server find it: free, or
\* held by a listening socket of another process
PortStates == {"free", "foreign"}

\* http_server: 0 for None, 1 for the server object; shutdown_request and
\* is_shut_down are that object's flags (serve_forever and shutdown)
NoServer == [http_server |-> 0, running |-> FALSE, shutdown_request |-> FALSE,
             is_shut_down |-> FALSE, port |-> "free"]

\* a thread's position in PrintServer.start() (pc) and in PrintServer.stop()
\* (spc); guarded and bound record what start() has done so far, why names
\* what made start() fail
IdleThread == [pc |-> "idle", spc |-> "none", use_tunnel |-> FALSE,
               result |-> FALSE, why |-> "none", guarded |-> FALSE,
               bound |-> FALSE, launched |-> FALSE,
               listeners |-> <<>>, attempted |-> {}]

ThreadFree(t) == sth[t].pc \in {"idle", "returned"} /\ sth[t].spc \in {"none", "done"}

\* mutant: the tunnel is started whatever the configuration says
TunnelWanted_always(use_tunnel) == TRUE

\* `if use_tunnel:` before self.tunnel.start(port)
TunnelWanted(use_tunnel) == use_tunnel

\* mutant: a failed tunnel start aborts the server
AfterTunnelStart_fatal(ok) == IF ok THEN "serve" ELSE "finally"

\* the return value of self.tunnel.start(port) is not looked at
AfterTunnelStart(ok) == "serve"

\* mutant: start() does not look at the printer name
PrinterMissing_never(printer_name) == FALSE

\* `if not printer_name:` at the head of start()
PrinterMissing(printer_name) == printer_name = ""

\* the GUI thread, back from any earlier stop(), starts the server thread
\* (one server lifetime); start() reads the configuration and returns False
\* without a printer
server_start_enter ==
    /\ sth["srv"].pc = "idle" /\ ThreadFree("gui")
    /\ sth' = [sth EXCEPT !["srv"] =
                 IF PrinterMissing(config.printer_name)
                 THEN [IdleThread EXCEPT !.pc = "returned", !.why = "no_printer"]
                 ELSE [IdleThread EXCEPT !.pc = "guard",
                                         !.use_tunnel = config.use_tunnel],
                          !["gui"] = IdleThread]
    /\ UNCHANGED <<server>>
    /\ UNCHANGED httpVars
    /\ UNCHANGED tunnelVars

\* what happens to one listening process in the loop of the Port Guard: it
\* is terminated; psutil reports it already gone (NoSuchProcess) or protected
\* (AccessDenied); or some other exception is raised
KillOutcomes == {"terminated", "gone", "denied", "error"}

\* the listeners of one run of the guard, in the order of net_connections()
ListenerRuns ==
    UNION {[1..n -> KillOutcomes] : n \in 0..MaxListeners}

\* mutant: AccessDenied is not among the exceptions caught per process
AbortsLoop_denied(outcome) == outcome \in {"error", "denied"}

\* `except (psutil.NoSuchProcess, psutil.AccessDenied): pass` inside the
\* loop; anything else reaches the outer `except Exception` and ends the loop
AbortsLoop(outcome) == outcome = "error"

\* the listeners the loop gets to: all of them up to the first whose
\* exception ends the loop
Attempted(outs) ==
    {i \in 1..Len(outs) : \A j \in 1..(i - 1) : ~AbortsLoop(outs[j])}

\* the port after the guard: free when every listener was reached and is gone
PortAfterGuard(outs) ==
    IF \A i \in 1..Len(outs) :
           i \in Attempted(outs) /\ outs[i] \in {"terminated", "gone"}
    THEN "free" ELSE "foreign"

\* self.kill_process_on_port(port): every error is swallowed, and start()
\* goes on to make_server
kill_process_on_port(outs) ==
    /\ sth["srv"].pc = "guard"
    /\ (server.port = "free") = (outs = <<>>)
    /\ server' = [server EXCEPT !.port = PortAfterGuard(outs)]
    /\ sth' = [sth EXCEPT !["srv"].pc = "bind", !["srv"].guarded = TRUE,
                          !["srv"].listeners = outs,
                          !["srv"].attempted = Attempted(outs)]
    /\ UNCHANGED httpVars
    /\ UNCHANGED tunnelVars

\* make_server('0.0.0.0', port, ...): raises when the port is still held
make_server ==
    /\ sth["srv"].pc = "bind"
    /\ IF server.port = "foreign"
       THEN /\ sth' = [sth EXCEPT !["srv"].pc = "finally",
                                  !["srv"].why = "bind_failed",
                                  !["srv"].listeners = <<>>,
                                  !["srv"].attempted = {}]
            /\ UNCHANGED server
       ELSE /\ server' = [server EXCEPT !.http_server = 1,
                                        !.shutdown_request = FALSE,
                                        !.is_shut_down = FALSE]
            /\ sth' = [sth EXCEPT !["srv"].pc = "set_running",
                                  !["srv"].bound = TRUE,
                                  !["srv"].listeners = <<>>,
                                  !["srv"].attempted = {}]
    /\ UNCHANGED httpVars
    /\ UNCHANGED tunnelVars

\* self.running = True
server_set_running ==
    /\ sth["srv"].pc = "set_running"
    /\ server' = [server EXCEPT !.running = TRUE]
    /\ sth' = [sth EXCEPT !["srv"].pc = "tunnel"]
    /\ UNCHANGED httpVars
    /\ UNCHANGED tunnelVars

\* `if use_tunnel:` is false: straight to serve_forever
server_skip_tunnel ==
    /\ sth["srv"].pc = "tunnel"
    /\ ~TunnelWanted(sth["srv"].use_tunnel)
    /\ sth' = [sth EXCEPT !["srv"].pc = "serve"]
    /\ UNCHANGED <<server>>
    /\ UNCHANGED httpVars
    /\ UNCHANGED tunnelVars

\* self.tunnel.start(port) is entered
server_call_tunnel(found) ==
    /\ sth["srv"].pc = "tunnel"
    /\ TunnelWanted(sth["srv"].use_tunnel)
    /\ StartEntry("srv", found)
    /\ sth' = [sth EXCEPT !["srv"].pc = "tunnel_wait"]
    /\ UNCHANGED <<server>>

\* self.tunnel.start(port) has returned
server_tunnel_returned ==
    /\ sth["srv"].pc = "tunnel_wait"
    /\ ctl["srv"].op = "start" /\ ctl["srv"].pc = "returned"
    /\ sth' = [sth EXCEPT
                 !["srv"].pc = AfterTunnelStart(ctl["srv"].result),
                 !["srv"].launched = ctl["srv"].result]
    /\ UNCHANGED <<server>>
    /\ UNCHANGED httpVars
    /\ UNCHANGED tunnelVars


\* self.http_server.serve_forever() begins: with http_server None the call
\* raises and the except clause makes start() return False; otherwise the
\* loop clears is_shut_down and accepts requests
serve_forever ==
    /\ sth["srv"].pc = "serve"
    /\ IF server.http_server = 0
       THEN /\ sth' = [sth EXCEPT !["srv"].pc = "finally",
                                  !["srv"].why = "exception"]
            /\ UNCHANGED server
       ELSE /\ server' = [server EXCEPT !.is_shut_down = FALSE]
            /\ sth' = [sth EXCEPT !["srv"].pc = "serving"]
    /\ UNCHANGED httpVars
    /\ UNCHANGED tunnelVars

\* the loop sees the shutdown request and ends
serve_forever_ends ==
    /\ sth["srv"].pc = "serving"
    /\ server.shutdown_request
    /\ server' = [server EXCEPT !.shutdown_request = FALSE,
                                !.is_shut_down = TRUE]
    /\ sth' = [sth EXCEPT !["srv"].pc = "finally", !["srv"].result = TRUE]
    /\ UNCHANGED httpVars
    /\ UNCHANGED tunnelVars


\* PrintServer.stop() is entered, by the GUI thread or by the finally clause
\* of start(): self.running = False
server_stop_enter(t) ==
    /\ \/ t = "gui" /\ ThreadFree("gui")
       \/ t = "srv" /\ sth[t].pc = "finally" /\ sth[t].spc = "none"
    /\ server' = [server EXCEPT !.running = FALSE]
    /\ sth' = [sth EXCEPT ![t].spc = "tunnel"]
    /\ UNCHANGED httpVars
    /\ UNCHANGED tunnelVars

\* `if self.tunnel.running:` is false
server_stop_skip_tunnel(t) ==
    /\ sth[t].spc = "tunnel"
    /\ ~running
    /\ sth' = [sth EXCEPT ![t].spc = "http"]
    /\ UNCHANGED <<server>>
    /\ UNCHANGED httpVars
    /\ UNCHANGED tunnelVars

\* `if self.tunnel.running:` is true: self.tunnel.stop() is entered
server_stop_call_tunnel(t) ==
    /\ sth[t].spc = "tunnel"
    /\ running
    /\ StopEntry(t)
    /\ sth' = [sth EXCEPT ![t].spc = "tunnel_wait"]
    /\ UNCHANGED <<server>>

\* self.tunnel.stop() has returned
server_stop_tunnel_returned(t) ==
    /\ sth[t].spc = "tunnel_wait"
    /\ ctl[t].op = "stop" /\ ctl[t].pc = "returned"
    /\ sth' = [sth EXCEPT ![t].spc = "http"]
    /\ UNCHANGED <<server>>
    /\ UNCHANGED httpVars
    /\ UNCHANGED tunnelVars

\* `if self.http_server:`, then self.http_server.shutdown() sets the request
\* flag; with the attribute None by then the call raises and is swallowed
server_stop_http(t) ==
    /\ sth[t].spc = "http"
    /\ IF server.http_server = 0
       THEN /\ sth' = [sth EXCEPT ![t].spc = "done"]
            /\ UNCHANGED server
       ELSE /\ server' = [server EXCEPT !.shutdown_request = TRUE]
            /\ sth' = [sth EXCEPT ![t].spc = "shutdown_wait"]
    /\ UNCHANGED httpVars
    /\ UNCHANGED tunnelVars

\* shutdown() returns once the loop has signalled its end;
\* self.http_server = None
server_stop_shutdown_returns(t) ==
    /\ sth[t].spc = "shutdown_wait"
    /\ server.is_shut_down
    /\ server' = [server EXCEPT !.http_server = 0]
    /\ sth' = [sth EXCEPT ![t].spc = "done"]
    /\ UNCHANGED httpVars
    /\ UNCHANGED tunnelVars

\* the finally clause is over: start() returns
server_start_returns ==
    /\ sth["srv"].pc = "finally" /\ sth["srv"].spc = "done"
    /\ sth' = [sth EXCEPT !["srv"].pc = "returned"]
    /\ UNCHANGED <<server>>
    /\ UNCHANGED httpVars
    /\ UNCHANGED tunnelVars

\* PrintServer.__init__
OrchInit ==
    /\ server = NoServer
    /\ sth = [t \in Callers |-> IdleThread]

\* --------------------------------------------- the front door, one request
\* at a time
FrontWorkers == {"w1"}

Init ==
    /\ config \in {Construct(c) : c \in LoadedConfigs}
    /\ req = [w \in Workers |-> IdleReq]
    /\ served = 0
    /\ fs = [n \in Names |-> "absent"]
    /\ cleanups = {}
    /\ had_failure = FALSE
    /\ TunnelInit
    /\ OrchInit
    /\ render = IdleRender

Next ==
    \/ \E u \in {{}, {TRUE}, {FALSE}}, k \in {{}, {""}, {"k1"}},
          p \in {{}} \cup {{n} : n \in PrinterNames} : save_config(u, k, p)
    \/ \E w \in FrontWorkers, m \in {"GET", "OPTIONS"}, k \in HeaderKeys :
          health(w, m, k)
    \/ \E w \in FrontWorkers, m \in {"POST", "OPTIONS"}, k \in HeaderKeys,
          p \in PrinterArgs, f \in FileFields, b \in Payloads :
          print_pdf_endpoint(w, m, k, p, f, b)
    \/ \E w \in FrontWorkers, o \in ResolveOutcomes : resolve_renderer(w, o)
    \/ \E w \in FrontWorkers : write_create_raises(w)
    \/ \E w \in FrontWorkers, n \in Names : write_raises(w, n)
    \/ \E w \in FrontWorkers, n \in Names : write_scratch(w, n)
    \/ \E w \in FrontWorkers : launch_raises(w)
    \/ \E w \in FrontWorkers : launch_renderer(w)
    \/ \E w \in FrontWorkers, o \in RunOutcomes : renderer_returns(w, o)
    \/ \E w \in FrontWorkers : finally_and_respond(w)
    \/ \E t \in cleanups, ok \in BOOLEAN : cleanup(t, ok)
    \/ \E w \in FrontWorkers : finish(w)

Spec == Init /\ [][Next]_vars

\* ------------------------------------- the settings operations of the GUI
\* the configuration changes only through the handlers of the settings
\* window, between requests to the two routes
NextSettings ==
    \/ \E u \in BOOLEAN, k \in Keys : on_tunnel_setting_changed(u, k)
    \/ \E k \in Keys : regenerate_api_key(k)
    \/ \E p \in PrinterNames \ {""} : save_configuration(p)
    \/ \E w \in FrontWorkers, m \in {"GET", "OPTIONS"}, k \in HeaderKeys :
          health(w, m, k)
    \/ \E w \in FrontWorkers, m \in {"POST", "OPTIONS"}, k \in HeaderKeys,
          p \in PrinterArgs, f \in FileFields, b \in Payloads :
          print_pdf_endpoint(w, m, k, p, f, b)
    \/ \E w \in FrontWorkers, o \in ResolveOutcomes : resolve_renderer(w, o)
    \/ \E w \in FrontWorkers : write_create_raises(w)
    \/ \E w \in FrontWorkers, n \in Names : write_raises(w, n)
    \/ \E w \in FrontWorkers, n \in Names : write_scratch(w, n)
    \/ \E w \in FrontWorkers : launch_raises(w)
    \/ \E w \in FrontWorkers : launch_renderer(w)
    \/ \E w \in FrontWorkers, o \in RunOutcomes : renderer_returns(w, o)
    \/ \E w \in FrontWorkers : finally_and_respond(w)
    \/ \E t \in cleanups, ok \in BOOLEAN : cleanup(t, ok)
    \/ \E w \in FrontWorkers : finish(w)

SpecSettings == Init /\ [][NextSettings]_vars

\* ------------------------------- the dispatcher under concurrent requests
\* valid requests to POST /print handled by the threads of the threaded server
InitDispatch ==
    /\ config = Construct([use_tunnel |-> FALSE, api_key |-> "",
                           printer_name |-> "HP", port |-> DefaultPort])
    /\ req = [w \in Workers |-> IdleReq]
    /\ served = 0
    /\ fs = [n \in Names |-> "absent"]
    /\ cleanups = {}
    /\ had_failure = FALSE
    /\ TunnelInit
    /\ OrchInit
    /\ render = IdleRender

NextDispatch ==
    \/ \E w \in Workers, b \in {<<"%", "P", "D", "F">>, <<"x">>} :
          print_pdf_endpoint(w, "POST", Absent, Absent, {}, b)
    \/ \E w \in Workers, o \in ResolveOutcomes : resolve_renderer(w, o)
    \/ \E w \in Workers : write_create_raises(w)
    \/ \E w \in Workers, n \in Names : write_raises(w, n)
    \/ \E w \in Workers, n \in Names : write_scratch(w, n)
    \/ \E w \in Workers : launch_raises(w)
    \/ \E w \in Workers : launch_renderer(w)
    \/ \E w \in Workers, o \in RunOutcomes : renderer_returns(w, o)
    \/ \E w \in Workers : finally_and_respond(w)
    \/ \E t \in cleanups, ok \in BOOLEAN : cleanup(t, ok)
    \/ \E w \in Workers : finish(w)

SpecDispatch == InitDispatch /\ [][NextDispatch]_vars

\* ------------------------------------ the tunnel supervisor and its threads
TunnelCallers == {"gui"}

InitTunnel ==
    /\ config = Construct([use_tunnel |-> TRUE, api_key |-> "",
                           printer_name |-> "HP", port |-> DefaultPort])
    /\ req = [w \in Workers |-> IdleReq]
    /\ served = 0
    /\ fs = [n \in Names |-> "absent"]
    /\ cleanups = {}
    /\ had_failure = FALSE
    /\ TunnelInit
    /\ OrchInit
    /\ render = IdleRender

NextTunnel ==
    \/ \E t \in TunnelCallers, found \in BOOLEAN : start_enter(t, found)
    \/ \E t \in TunnelCallers : start_popen_raises(t)
    \/ \E t \in TunnelCallers, pid \in Pids : start_popen(t, pid)
    \/ \E t \in TunnelCallers : start_set_running(t)
    \/ \E t \in TunnelCallers : start_thread(t)
    \/ \E i \in Pids : reader_begin(i)
    \/ \E i \in Pids, line \in Lines : reader_line(i, line)
    \/ \E i \in Pids : reader_set_url(i)
    \/ \E i \in Pids : reader_eof(i)
    \/ \E i \in Pids : reader_raises(i)
    \/ \E i \in Pids : reader_tail_running(i)
    \/ \E i \in Pids : reader_tail_url(i)
    \/ \E t \in TunnelCallers : stop_enter(t)
    \/ \E t \in TunnelCallers, graceful \in BOOLEAN : stop_terminate(t, graceful)
    \/ \E t \in TunnelCallers : stop_clear_process(t)
    \/ \E t \in TunnelCallers : stop_clear_url(t)
    \/ \E t \in TunnelCallers : stop_clear_running(t)
    \/ \E pid \in Pids : proc_exits(pid)

SpecTunnel == InitTunnel /\ [][NextTunnel]_vars

\* the reader is a thread of its own and is scheduled: from the end of the
\* stream it runs on to its last statement
ReaderFairness ==
    \A i \in Pids :
        /\ WF_vars(reader_set_url(i))
        /\ WF_vars(reader_eof(i))
        /\ WF_vars(reader_tail_running(i))
        /\ WF_vars(reader_tail_url(i))

\* the runs checked for progress: at most MaxLiveLaunches launches
NextTunnelLive ==
    \/ \E t \in TunnelCallers, found \in BOOLEAN : start_enter(t, found)
    \/ \E t \in TunnelCallers : start_popen_raises(t)
    \/ \E t \in TunnelCallers, pid \in 1..MaxLiveLaunches : start_popen(t, pid)
    \/ \E t \in TunnelCallers : start_set_running(t)
    \/ \E t \in TunnelCallers : start_thread(t)
    \/ \E i \in Pids : reader_begin(i)
    \/ \E i \in Pids, line \in Lines : reader_line(i, line)
    \/ \E i \in Pids : reader_set_url(i)
    \/ \E i \in Pids : reader_eof(i)
    \/ \E i \in Pids : reader_raises(i)
    \/ \E i \in Pids : reader_tail_running(i)
    \/ \E i \in Pids : reader_tail_url(i)
    \/ \E t \in TunnelCallers : stop_enter(t)
    \/ \E t \in TunnelCallers, graceful \in BOOLEAN : stop_terminate(t, graceful)
    \/ \E t \in TunnelCallers : stop_clear_process(t)
    \/ \E t \in TunnelCallers : stop_clear_url(t)
    \/ \E t \in TunnelCallers : stop_clear_running(t)
    \/ \E pid \in Pids : proc_exits(pid)

SpecTunnelLive == InitTunnel /\ [][NextTunnelLive]_vars /\ ReaderFairness

\* ----------------------------- the orchestrator, the tunnel and their threads
InitServer ==
    /\ config \in {Construct([use_tunnel |-> u, api_key |-> "",
                              printer_name |-> p, port |-> DefaultPort]) :
                      u \in BOOLEAN, p \in PrinterNames}
    /\ req = [w \in Workers |-> IdleReq]
    /\ served = 0
    /\ fs = [n \in Names |-> "absent"]
    /\ cleanups = {}
    /\ had_failure = FALSE
    /\ TunnelInit
    /\ server \in {[NoServer EXCEPT !.port = q] : q \in PortStates}
    /\ sth = [t \in Callers |-> IdleThread]
    /\ render = IdleRender

NextServer ==
    \/ server_start_enter
    \/ \E outs \in ListenerRuns : kill_process_on_port(outs)
    \/ make_server
    \/ server_set_running
    \/ server_skip_tunnel
    \/ \E found \in BOOLEAN : server_call_tunnel(found)
    \/ server_tunnel_returned
    \/ serve_forever
    \/ serve_forever_ends
    \/ \E t \in Callers : server_stop_enter(t)
    \/ \E t \in Callers : server_stop_skip_tunnel(t)
    \/ \E t \in Callers : server_stop_call_tunnel(t)
    \/ \E t \in Callers : server_stop_tunnel_returned(t)
    \/ \E t \in Callers : server_stop_http(t)
    \/ \E t \in Callers : server_stop_shutdown_returns(t)
    \/ server_start_returns
    \/ \E t \in Callers : start_popen_raises(t)
    \/ \E t \in Callers, pid \in Pids : start_popen(t, pid)
    \/ \E t \in Callers : start_set_running(t)
    \/ \E t \in Callers : start_thread(t)
    \/ \E i \in Pids : reader_begin(i)
    \/ \E i \in Pids, line \in Lines : reader_line(i, line)
    \/ \E i \in Pids : reader_set_url(i)
    \/ \E i \in Pids : reader_eof(i)
    \/ \E i \in Pids : reader_raises(i)
    \/ \E i \in Pids : reader_tail_running(i)
    \/ \E i \in Pids : reader_tail_url(i)
    \/ \E t \in Callers, graceful \in BOOLEAN : stop_terminate(t, graceful)
    \/ \E t \in Callers : stop_clear_process(t)
    \/ \E t \in Callers : stop_clear_url(t)
    \/ \E t \in Callers : stop_clear_running(t)
    \/ \E pid \in Pids : proc_exits(pid)

SpecServer == InitServer /\ [][NextServer]_vars

\* every thread that is inside a call runs on: the server thread in start(),
\* any thread in stop() once it has entered it, the calls into the tunnel
\* manager and the reader threads. Only the GUI's decision to call stop(),
\* the tunnel's lines and the exit of a tunnel subprocess are left open.
ServerFairness ==
    /\ WF_vars(\E outs \in ListenerRuns : kill_process_on_port(outs))
    /\ WF_vars(make_server)
    /\ WF_vars(server_set_running)
    /\ WF_vars(server_skip_tunnel)
    /\ WF_vars(\E found \in BOOLEAN : server_call_tunnel(found))
    /\ WF_vars(server_tunnel_returned)
    /\ WF_vars(serve_forever)
    /\ WF_vars(serve_forever_ends)
    /\ WF_vars(server_stop_enter("srv"))
    /\ WF_vars(server_start_returns)
    /\ \A t \in Callers :
           /\ WF_vars(server_stop_skip_tunnel(t))
           /\ WF_vars(server_stop_call_tunnel(t))
           /\ WF_vars(server_stop_tunnel_returned(t))
           /\ WF_vars(server_stop_http(t))
           /\ WF_vars(server_stop_shutdown_returns(t))
           /\ WF_vars(start_popen_raises(t) \/ \E pid \in Pids : start_popen(t, pid))
           /\ WF_vars(start_set_running(t))
           /\ WF_vars(start_thread(t))
           /\ WF_vars(\E graceful \in BOOLEAN : stop_terminate(t, graceful))
           /\ WF_vars(stop_clear_process(t))
           /\ WF_vars(stop_clear_url(t))
           /\ WF_vars(stop_clear_running(t))
    /\ \A i \in Pids : WF_vars(reader_begin(i))
    /\ ReaderFairness

SpecServerLive == InitServer /\ [][NextServer]_vars /\ ServerFairness

\* --------------------------------------- the print settings of one dispatch
InitRender ==
    /\ config = Construct([use_tunnel |-> FALSE, api_key |-> "",
                           printer_name |-> "HP", port |-> DefaultPort])
    /\ req = [w \in Workers |-> IdleReq]
    /\ served = 0
    /\ fs = [n \in Names |-> "absent"]
    /\ cleanups = {}
    /\ had_failure = FALSE
    /\ TunnelInit
    /\ OrchInit
    /\ render \in {[IdleRender EXCEPT !.has_settings = h, !.scaling = s,
                                      !.color = c, !.duplex = d] :
                      h \in BOOLEAN, s \in Scalings, c \in Colors,
                      d \in Duplexes}

NextRender ==
    \/ print_pdf_settings
    \/ \E n \in Names : print_pdf_cmd(n)

SpecRender == InitRender /\ [][NextRender]_vars

\* ------------------------------------------------------ front-door properties
\* what the properties say about a request, stated without the handler's code
BeginsWithSignature(d) ==
    Len(d) >= 4 /\ d[1] = "%" /\ d[2] = "P" /\ d[3] = "D" /\ d[4] = "F"

KeyRequired == config.use_tunnel /\ config.api_key # ""

KeyRejected(r) == KeyRequired /\ (r.key = Absent \/ r.key # config.api_key)

DeviceName(r) == IF r.printer = Absent THEN config.printer_name ELSE r.printer

IsPrintPost(r) == r.route = "/print" /\ r.method = "POST"

NoDispatchEffects(r) ==
    r.temp_pdf_path = Absent /\ r.renders = 0 /\ r.scheduled = 0

\* C1 as stated: every POST /print whose payload does not begin with %PDF is
\* answered 400 and launches no renderer.
C1_NonPdfAlways400 ==
    \A w \in Workers :
        (IsPrintPost(req[w]) /\ ~BeginsWithSignature(req[w].data)) =>
            /\ req[w].renders = 0
            /\ req[w].pc = "done" => req[w].resp.status = 400

\* C1 amended: such a request never launches the renderer, and is answered
\* 400 unless the API-key check fails first, when it is answered 401.
C1_NonPdfRejected ==
    \A w \in Workers :
        (IsPrintPost(req[w]) /\ ~BeginsWithSignature(req[w].data)) =>
            /\ req[w].renders = 0
            /\ req[w].pc = "done"
            /\ req[w].resp.status = IF KeyRejected(req[w]) THEN 401 ELSE 400

C1_Witness ==
    \E w \in Workers :
        /\ IsPrintPost(req[w]) /\ req[w].pc = "done"
        /\ req[w].data = <<"x", "%", "P", "D", "F">>
        /\ DeviceName(req[w]) # ""
        /\ ~KeyRejected(req[w])
        /\ req[w].resp.status = 400

\* C2: with the key required and the header missing or different, POST /print
\* is answered 401 and nothing else happens: no validation, no scratch file,
\* no renderer, whatever the payload and the printer parameter.
C2_UnauthorizedNoProcessing ==
    \A w \in Workers :
        (IsPrintPost(req[w]) /\ KeyRejected(req[w])) =>
            /\ req[w].pc = "done"
            /\ req[w].resp = UnauthorizedResp
            /\ ~req[w].validated
            /\ NoDispatchEffects(req[w])

C2_Witness ==
    \E w \in Workers :
        /\ IsPrintPost(req[w]) /\ KeyRejected(req[w])
        /\ req[w].key = Absent
        /\ BeginsWithSignature(req[w].data) /\ DeviceName(req[w]) # ""
        /\ req[w].resp.status = 401

\* C3: GET /health is answered 401 exactly when the tunnel is enabled, a key
\* is configured and the header differs from it or is absent; otherwise 200
\* with status, printer and port.
C3_HealthAuth ==
    \A w \in Workers :
        (req[w].route = "/health" /\ req[w].method = "GET") =>
            /\ req[w].pc = "done"
            /\ req[w].resp.status = 401 <=> KeyRejected(req[w])
            /\ ~KeyRejected(req[w]) =>
                   req[w].resp = [NoResp EXCEPT !.status = 200, !.ok = "ok",
                                                !.printer = config.printer_name,
                                                !.port = config.port]

C3_Witness ==
    \E w \in Workers :
        /\ req[w].route = "/health" /\ req[w].method = "GET"
        /\ ~config.use_tunnel /\ config.api_key = "k1" /\ req[w].key = "k2"
        /\ req[w].resp.status = 200

\* C4 as stated: every valid PDF sent to POST /print with a configured
\* printer is answered 200 with bytes equal to the payload length.
C4_ValidPdfAlways200 ==
    \A w \in Workers :
        (IsPrintPost(req[w]) /\ req[w].pc = "done"
           /\ BeginsWithSignature(req[w].data) /\ config.printer_name # "") =>
            /\ req[w].resp.status = 200
            /\ req[w].resp.bytes = Len(req[w].data)

\* C4 amended: a valid PDF sent to POST /print is answered 200 with bytes
\* equal to the payload length when the key check passes, the device name is
\* not empty and the renderer exits 0 or times out; otherwise 401 (key
\* check), 400 (empty device name) or 500 (dispatch failed).
C4_ValidPdfOutcome ==
    \A w \in Workers :
        (IsPrintPost(req[w]) /\ req[w].pc = "done"
           /\ BeginsWithSignature(req[w].data)) =>
            IF KeyRejected(req[w]) THEN req[w].resp.status = 401
            ELSE IF DeviceName(req[w]) = "" THEN req[w].resp.status = 400
            ELSE IF req[w].outcome \in {"exit0", "timeout"}
            THEN /\ req[w].resp.status = 200
                 /\ req[w].resp.bytes = Len(req[w].data)
            ELSE req[w].resp.status = 500

C4_Witness ==
    \E w \in Workers :
        /\ IsPrintPost(req[w]) /\ req[w].pc = "done"
        /\ req[w].data = <<"%", "P", "D", "F", "-", "1">>
        /\ req[w].outcome = "exit0"
        /\ req[w].resp.status = 200 /\ req[w].resp.bytes = 6

\* C5: each validation failure of POST /print (empty device name, empty
\* payload, payload without the signature) is answered 400 with no scratch
\* file and no renderer; the first failing check in the order device, empty
\* payload, signature decides the answer.
C5_ValidationOrder ==
    \A w \in Workers :
        (IsPrintPost(req[w]) /\ ~KeyRejected(req[w])) =>
            LET r == req[w]
                expected ==
                    IF DeviceName(r) = "" THEN "No printer specified"
                    ELSE IF Len(r.data) = 0 THEN "No PDF data received"
                    ELSE IF ~BeginsWithSignature(r.data)
                    THEN "Data is not a valid PDF file"
                    ELSE ""
            IN  expected # "" =>
                    /\ r.pc = "done"
                    /\ r.resp = ErrorResp(400, expected)
                    /\ NoDispatchEffects(r)

C5_Witness ==
    \E w \in Workers :
        /\ IsPrintPost(req[w]) /\ ~KeyRejected(req[w])
        /\ DeviceName(req[w]) = "" /\ req[w].data = <<>>
        /\ req[w].resp = ErrorResp(400, "No printer specified")

\* C6: when the renderer exits non-zero, raises on launch or cannot be
\* resolved, POST /print is answered 500 {error: "Print job failed"}; the
\* renderer is launched at most once for the request, and the worker goes on
\* to the next request.
C6_DispatchFailure ==
    \A w \in Workers :
        /\ req[w].renders <= 1
        /\ (req[w].pc = "done"
              /\ req[w].outcome \in {"exit1", "launch_raise", "unresolved"}) =>
               /\ req[w].resp = JobFailedResp
               /\ had_failure
               /\ ENABLED finish(w)

C6_Witness ==
    \E w \in Workers :
        /\ had_failure
        /\ req[w].job = 2 /\ req[w].pc = "done"
        /\ req[w].outcome = "exit0" /\ req[w].resp.status = 200

\* C7: when the renderer outlives the timeout, dispatch returns success and
\* POST /print is answered 200 with the body it has for exit code 0.
C7_TimeoutIsSuccess ==
    \A w \in Workers :
        (req[w].pc = "done" /\ req[w].outcome = "timeout") =>
            req[w].resp = [NoResp EXCEPT !.status = 200, !.success = TRUE,
                                         !.printer = DeviceName(req[w]),
                                         !.bytes = Len(req[w].data)]

C7_Witness ==
    \E w \in Workers :
        /\ req[w].pc = "done" /\ req[w].outcome = "timeout"
        /\ req[w].renders = 1
        /\ req[w].resp.status = 200

\* C14: an OPTIONS request to /health or /print is answered 204 with an empty
\* body whatever the configuration and the X-API-Key header are, and is never
\* validated or dispatched.
C14_PreflightNoContent ==
    \A w \in Workers :
        (req[w].pc # "idle" /\ req[w].method = "OPTIONS") =>
            /\ req[w].pc = "done"
            /\ req[w].resp.status = 204
            /\ req[w].resp = [NoResp EXCEPT !.status = 204]
            /\ ~req[w].validated
            /\ NoDispatchEffects(req[w])

\* a preflight to /print without the key while the key is required
C14_Witness ==
    \E w \in Workers :
        /\ req[w].pc = "done" /\ req[w].method = "OPTIONS"
        /\ req[w].route = "/print"
        /\ KeyRequired /\ req[w].key = Absent
        /\ req[w].resp.status = 204

\* C30: after construction and after every settings operation use_tunnel
\* implies a non-empty api_key, and while use_tunnel is true every GET
\* /health and POST /print whose X-API-Key is missing or differs from the
\* key is answered 401.
C30_TunnelImpliesKey ==
    /\ config.use_tunnel => config.api_key # ""
    /\ \A w \in Workers :
           (/\ config.use_tunnel
            /\ \/ req[w].route = "/health" /\ req[w].method = "GET"
               \/ IsPrintPost(req[w])
            /\ req[w].key = Absent \/ req[w].key # config.api_key) =>
               /\ req[w].pc = "done"
               /\ req[w].resp.status = 401

\* the key was regenerated and a request carrying the old key is refused
C30_Witness ==
    \E w \in Workers :
        /\ config.use_tunnel /\ config.api_key = "k2"
        /\ IsPrintPost(req[w]) /\ req[w].key = "k1"
        /\ req[w].resp.status = 401

\* ------------------------------------------------------ dispatcher properties
\* the deletion tasks of the job a worker is handling
TasksOf(r) == {t \in cleanups : t.job = r.job}

\* the worker's dispatch holds a scratch file it has not yet handed to a
\* deletion task
InDispatch(r) ==
    r.pc \in {"launch", "running", "finally"} /\ r.temp_pdf_path # Absent

\* C21: when a dispatch returns, a scratch file it created has exactly one
\* deletion task, scheduled at that moment, whatever the outcome; a dispatch
\* that created no file has none; a deletion that fails leaves the requests,
\* their results and the server as they were.
C21_CleanupScheduledOnce ==
    [][/\ \A w \in Workers :
              (req[w].pc = "finally" /\ req'[w].pc = "done") =>
                  LET r == req'[w]
                  IN  IF r.temp_pdf_path # Absent
                      THEN /\ r.scheduled = 1
                           /\ {t \in cleanups' : t.job = r.job} =
                                  {[name |-> r.temp_pdf_path, job |-> r.job]}
                           /\ TasksOf(req[w]) = {}
                      ELSE /\ r.scheduled = 0
                           /\ {t \in cleanups' : t.job = r.job} = {}
       /\ \A w \in Workers, n \in Names :
              (req[w].pc = "write" /\ fs[n] = "absent" /\ fs'[n] # "absent") =>
                  req'[w].temp_pdf_path = n \/ req'[w] = req[w]
       /\ \A t \in cleanups :
              (t \notin cleanups' /\ fs'[t.name] # "absent") =>
                  UNCHANGED <<req, had_failure, served, config, fs, server>>]_vars

\* writing the payload raised, the deletion was scheduled all the same, and
\* it has run and failed
C21_Witness ==
    \E w \in Workers :
        /\ req[w].pc = "done" /\ req[w].outcome = "write_raise"
        /\ req[w].scheduled = 1 /\ TasksOf(req[w]) = {}
        /\ fs[req[w].temp_pdf_path] = "partial"
        /\ req[w].resp = JobFailedResp

\* C22: the renderer is invoked only on a completely written file, and while
\* it is being launched or is running the job has no deletion task and its
\* file exists; the task is scheduled only when the dispatch returns.
C22_WriteInvokeSchedule ==
    \A w \in Workers :
        LET r == req[w]
        IN  /\ r.pc \in {"launch", "running"} =>
                   /\ fs[r.temp_pdf_path] = "full"
                   /\ TasksOf(r) = {} /\ r.scheduled = 0
            /\ r.renders = 1 => r.pc \in {"running", "finally", "done"}
            /\ r.scheduled = 1 => r.pc = "done"
            /\ TasksOf(r) # {} => r.pc = "done"

\* one renderer is running while the deletion of an earlier job is pending
C22_Witness ==
    \E w \in Workers :
        /\ req[w].pc = "running" /\ req[w].renders = 1
        /\ fs[req[w].temp_pdf_path] = "full"
        /\ \E t \in cleanups : t.job # req[w].job

\* the jobs using scratch file n: those that wrote it and are still in their
\* dispatch, and those whose deletion of it is pending
FileUsers(n) ==
    {req[w].job : w \in {v \in Workers : InDispatch(req[v])
                                           /\ req[v].temp_pdf_path = n}}
        \cup {t.job : t \in {u \in cleanups : u.name = n}}

\* C23: no scratch file is used by two jobs at once, and a step of a worker or
\* of a deletion task changes no file but its own.
C23_IndependentScratchFiles ==
    /\ \A n \in Names : Cardinality(FileUsers(n)) <= 1
    /\ \A w \in Workers :
           InDispatch(req[w]) => fs[req[w].temp_pdf_path] # "absent"

\* two dispatches overlap, each with its renderer running on its own file
C23_Witness ==
    /\ \A w \in Workers : req[w].pc = "running"
    /\ req["w1"].temp_pdf_path # req["w2"].temp_pdf_path

\* --------------------------------------------------------- tunnel properties
\* the step in which caller t enters start() or stop()
Entered(t, op) ==
    ctl[t].pc \in {"idle", "returned"} /\ ctl'[t] # ctl[t] /\ ctl'[t].op = op

\* some reader thread of the stream of subprocess p has recorded a URL
SessionRecorded(p) ==
    \E i \in Pids : readers[i].stdout = p /\ readers[i].recorded

\* C8: within one session the reader records at most one URL (a thread that
\* has recorded one for the current session is never about to record
\* another), and get_url() is absent until the session's first match.
C8_OneUrlPerSession ==
    \A i \in Pids :
        /\ (readers[i].pc = "set_url" /\ readers[i].stdout = process) =>
               ~SessionRecorded(process)
        /\ (process = i /\ get_url # None) => SessionRecorded(i)

\* C9: start() entered while running is TRUE returns False in that step and
\* changes nothing: no subprocess, no reader thread, same process, URL, flag.
C9_StartWhileRunningNoOp ==
    [][\A t \in Callers :
          (Entered(t, "start") /\ running) =>
              /\ ctl'[t].pc = "returned" /\ ctl'[t].result = FALSE
              /\ UNCHANGED <<process, tunnel_url, running, procs, readers>>]_vars

C9_Witness ==
    \E t \in Callers :
        /\ ctl[t].op = "start" /\ ctl[t].pc = "returned"
        /\ ctl[t].found = "running" /\ ctl[t].result = FALSE
        /\ running /\ process # 0 /\ procs[process] = "alive"
        /\ readers[process].pc = "loop"

ReaderStep(pc) ==
    /\ \E i \in Pids : readers[i].pc = pc /\ readers'[i] # readers[i]
    /\ UNCHANGED ctl

\* C16: every step that changes tunnel_url is a step of a reader thread.
C16_OnlyReaderWrites ==
    [][tunnel_url' # tunnel_url =>
           (ReaderStep("set_url") \/ ReaderStep("tail_url"))]_vars

\* session p is the current one and is not being stopped: its subprocess is
\* the one held, no stop() is in progress and its reader has not left the loop
Live(p) ==
    /\ process = p
    /\ \A t \in Callers : ctl[t].op = "stop" => ctl[t].pc = "returned"
    /\ readers[p].pc \in {"unborn", "start", "loop", "set_url"}

\* C17: while a session is live tunnel_url changes only from absent to a
\* value, by that session's own reader, and only once; nothing belonging to
\* another session sets or clears it.
C17_UrlSetOncePerSession ==
    [][\A p \in Pids :
          (Live(p) /\ tunnel_url' # tunnel_url) =>
              /\ tunnel_url = None
              /\ readers[p].pc = "set_url" /\ readers'[p].pc = "loop"
              /\ ~readers[p].recorded]_vars

\* C18: stop() on a running session kills the subprocess only when the
\* graceful termination failed or timed out, and in the state in which it
\* returns the handle is cleared, the URL is absent and running is FALSE.
C18_StopLeavesSessionStopped ==
    [][\A t \in Callers :
          (/\ ctl[t].op = "stop" /\ ctl[t].found = "running"
           /\ ctl[t].pc # "returned" /\ ctl'[t].pc = "returned") =>
              /\ ctl'[t].how \in {"graceful", "killed"}
              /\ process' = 0 /\ get_url' = None /\ ~running']_vars

\* the stream read by reader i has closed: its subprocess has exited, or the
\* read raised and the reader has left its loop
StreamClosed(i) ==
    \/ readers[i].pc = "loop" /\ procs[readers[i].stdout] = "dead"
    \/ readers[i].pc = "tail_running"

\* reader i has finished with the URL absent, and running is FALSE unless a
\* launch later than its own has set it again
ReaderLeftStopped(i) ==
    /\ readers[i].pc = "done"
    /\ get_url = None
    /\ running => \E j \in Pids : j > i /\ procs[j] # "unborn"

\* C19: once the stream of a session has closed (the subprocess exited, or
\* reading raised) its reader eventually finishes having set running FALSE
\* and cleared the URL, whether or not a URL had been recorded.
C19_StreamCloseStops ==
    \A i \in Pids : StreamClosed(i) ~> ReaderLeftStopped(i)

\* the stream closed after a URL was recorded; the reader has reset the flag
\* and is about to clear the URL
C19_Witness ==
    \E i \in Pids :
        /\ readers[i].pc = "tail_url" /\ readers[i].recorded
        /\ procs[i] = "dead" /\ ~running /\ get_url # None

AliveProcs == {p \in Pids : procs[p] = "alive"}

\* C26 as stated: at most one tunnel subprocess is alive at any time, and the
\* reader thread of an earlier session never writes running or the URL once
\* a later session has been launched.
C26_OneLiveSubprocess ==
    /\ Cardinality(AliveProcs) <= 1
    /\ \A i \in Pids :
           readers[i].pc \in {"set_url", "tail_running", "tail_url"} =>
               \A j \in Pids : j > i => procs[j] = "unborn"

\* C27 as stated: whenever running is false, get_url() returns no URL.
C27_NoUrlWhenNotRunning == ~running => get_url = None

\* ------------------------------------------------------ orchestrator properties
\* C11: when self.tunnel.start(port) returns failure (the executable was not
\* resolved, or the launch raised) the tunnel is not running, start() goes on
\* to serve_forever with the listener bound, and start() returns True
\* whenever it had bound the listener.
C11_TunnelFailureNotFatal ==
    [][/\ (sth["srv"].pc = "tunnel_wait" /\ sth'["srv"].pc # "tunnel_wait"
            /\ ~ctl["srv"].result) =>
               /\ sth'["srv"].pc = "serve"
               /\ ~running' /\ process' = 0
               /\ server'.http_server = 1
       /\ (sth'["srv"].pc = "returned" /\ sth'["srv"].bound) =>
               sth'["srv"].result]_vars

\* the tunnel start failed and the server is serving
C11_Witness ==
    /\ sth["srv"].pc = "serving" /\ sth["srv"].use_tunnel
    /\ ~sth["srv"].launched
    /\ ctl["srv"].op = "start" /\ ctl["srv"].pc = "returned"
    /\ ~ctl["srv"].result
    /\ server.http_server = 1 /\ ~running

\* a tunnel subprocess has been launched
Launched == \E i \in Pids : procs[i] # "unborn"

\* C12: in start() the listener is bound only after the Port Guard has
\* completed, a tunnel subprocess is launched only after the listener was
\* bound and only when use_tunnel is true, and a URL exists only after that.
C12_StartOrdering ==
    /\ (sth["srv"].bound \/ server.http_server # 0) => sth["srv"].guarded
    /\ (Launched \/ ctl["srv"].op = "start") =>
           /\ sth["srv"].bound /\ sth["srv"].guarded
           /\ sth["srv"].use_tunnel /\ config.use_tunnel
    /\ get_url # None => (Launched /\ sth["srv"].bound)

\* the listener is serving, the tunnel subprocess is alive, its URL is known
C12_Witness ==
    /\ sth["srv"].pc = "serving" /\ server.http_server = 1
    /\ sth["srv"].guarded /\ sth["srv"].launched
    /\ process # 0 /\ procs[process] = "alive" /\ get_url # None

\* the failures the Port Guard expects from one process
Swallowed == {"gone", "denied"}

\* C24: when the Port Guard returns, termination was attempted for every
\* listener that is preceded only by listeners that were terminated, had
\* already exited or denied access; the guard always returns, and start()
\* goes on to bind the listener.
C24_GuardSwallowsPerProcess ==
    sth["srv"].pc = "bind" =>
        LET outs == sth["srv"].listeners
        IN  /\ \A i \in 1..Len(outs) :
                   (\A j \in 1..(i - 1) :
                        outs[j] \in Swallowed \cup {"terminated"}) =>
                       i \in sth["srv"].attempted
            /\ sth["srv"].guarded
            /\ ENABLED make_server

\* access is denied for the first listener and the second is terminated
C24_Witness ==
    /\ sth["srv"].pc = "bind"
    /\ sth["srv"].listeners = <<"denied", "terminated">>
    /\ sth["srv"].attempted = {1, 2}
    /\ server.port = "foreign"

\* C25: start() always comes to its return. Without a printer it returns
\* False at once, the Port Guard and the bind not run; when the bind fails
\* after the Port Guard it returns False; in both cases the server is not
\* running, holds no listener, and no tunnel subprocess was launched.
C25_StartFailsCleanly ==
    /\ config.printer_name = "" =>
           /\ sth["srv"].pc \in {"idle", "returned"}
           /\ ~sth["srv"].guarded /\ ~sth["srv"].bound /\ ~sth["srv"].result
           /\ ~server.running /\ server.http_server = 0
           /\ ~Launched /\ process = 0
    /\ (sth["srv"].pc = "returned" /\ sth["srv"].guarded
          /\ ~sth["srv"].bound) =>
           /\ ~sth["srv"].result /\ sth["srv"].why = "bind_failed"
           /\ ~server.running /\ server.http_server = 0
           /\ ~Launched /\ process = 0
    /\ (sth["srv"].pc = "finally" /\ sth["srv"].spc = "none") =>
           ENABLED server_stop_enter("srv")

\* the port is still held after the Port Guard, the bind failed and start()
\* has returned False through its finally clause
C25_Witness ==
    /\ sth["srv"].pc = "returned" /\ sth["srv"].why = "bind_failed"
    /\ sth["srv"].spc = "done" /\ server.port = "foreign"
    /\ ~sth["srv"].result

\* a thread is inside stop(), or has returned from it, since start() began
StopIssued(t) == sth[t].spc # "none"

\* C28 as stated: once the GUI thread has called stop() after start() began,
\* start() eventually returns, with the server not running and no listener.
C28_StopEndsStart ==
    (StopIssued("gui") /\ sth["srv"].pc \notin {"idle", "returned"})
        ~> (/\ sth["srv"].pc = "returned"
            /\ ~server.running /\ server.http_server = 0)

\* C29 as stated: when the GUI thread's stop() and the stop() of start()'s
\* finally clause have both returned, the server is not running, holds no
\* listener, the tunnel's process handle is cleared and there is no URL.
C29_BothStopsSameFinalState ==
    (sth["gui"].spc = "done" /\ sth["srv"].spc = "done") =>
        /\ ~server.running /\ server.http_server = 0
        /\ process = 0 /\ get_url = None

\* ------------------------------------------------------ print-settings properties
\* the token each option contributes, "" for none
ScalingToken(v) == IF v = "noscale" THEN "noscale" ELSE IF v = "shrink" THEN "shrink" ELSE ""
ColorToken(v) == IF v = "monochrome" THEN "monochrome" ELSE ""
DuplexToken(v) ==
    IF v = "duplexlong" THEN "duplex" ELSE IF v = "duplexshort" THEN "duplexshort" ELSE ""
Glue(a, b) == IF a = "" THEN b ELSE IF b = "" THEN a ELSE a \o "," \o b
ExpectedToken(s, c, d) == Glue(Glue(ScalingToken(s), ColorToken(c)), DuplexToken(d))

\* C13: for every scaling in {fit, shrink, noscale}, color in {color,
\* monochrome} and duplex in {simplex, duplexlong, duplexshort} the settings
\* token is the comma-joined list, in the order scaling, color, duplex, of the
\* options' tokens; (fit, color, simplex) gives no token and then the command
\* has no -print-settings flag, otherwise the flag is followed by the token.
C13_SettingsToken ==
    (/\ render.pc \in {"cmd", "run"} /\ render.has_settings
     /\ render.scaling # Absent /\ render.color # Absent
     /\ render.duplex # Absent) =>
        LET want == ExpectedToken(render.scaling, render.color, render.duplex)
        IN  /\ render.settings_str = (IF want = "" THEN Absent ELSE want)
            /\ (want = "") <=> (render.scaling = "fit" /\ render.color = "color"
                                 /\ render.duplex = "simplex")
            /\ (render.scaling = "noscale" /\ render.color = "monochrome"
                 /\ render.duplex = "duplexlong") =>
                    render.settings_str = "noscale,monochrome,duplex"
            /\ render.pc = "run" =>
                   IF want = ""
                   THEN /\ Len(render.cmd) = 5
                        /\ \A k \in 1..5 : render.cmd[k] # "-print-settings"
                   ELSE /\ Len(render.cmd) = 7
                        /\ render.cmd[4] = "-print-settings"
                        /\ render.cmd[5] = want

\* a command carrying the full three-part token
C13_Witness ==
    /\ render.pc = "run" /\ render.has_settings
    /\ render.scaling = "noscale" /\ render.color = "monochrome"
    /\ render.duplex = "duplexshort"
    /\ render.cmd[4] = "-print-settings"
    /\ render.cmd[5] = "noscale,monochrome,duplexshort"

\* C15: in the state in which a call of PrintServer.stop() returns the
\* listener is shut down (http_server None, running FALSE) and no tunnel
\* subprocess is alive.
C15_StopTearsDownBoth ==
    [][\A t \in Callers :
          (sth[t].spc # "done" /\ sth'[t].spc = "done") =>
              /\ server'.http_server = 0 /\ ~server'.running
              /\ \A i \in Pids : procs'[i] # "alive"]_vars

====
